---- MODULE Spec2Model ----
(***************************************************************************)
(* Model of the AI service client (callApiProxy, handleGeminiError,        *)
(* processAttendanceCommand) and of the /api/gemini proxy route.           *)
(*                                                                         *)
(* JavaScript strings are sequences of one-character strings, so that      *)
(* toLowerCase and String.prototype.includes are computed, not assumed.    *)
(***************************************************************************)
EXTENDS Integers, Sequences, FiniteSets, TLC

\* ------------------------------------------------------------------ bounds
MaxFrags == 3
MaxRoster == 2
MaxNames == 2

\* ----------------------------------------------------------------- strings
UpperCase == <<"A","B","C","D","E","F","G","H","I","J","K","L","M","N","O","P","Q","R","S","T","U","V","W","X","Y","Z">>
LowerCase == <<"a","b","c","d","e","f","g","h","i","j","k","l","m","n","o","p","q","r","s","t","u","v","w","x","y","z">>

UpperSet == {UpperCase[i] : i \in 1..Len(UpperCase)}

LowerOf == [c \in UpperSet |-> LowerCase[CHOOSE i \in 1..Len(UpperCase) : UpperCase[i] = c]]

\* String.prototype.toLowerCase
toLowerCase(s) == [i \in 1..Len(s) |-> IF s[i] \in UpperSet THEN LowerOf[s[i]] ELSE s[i]]

\* variant: the empty string is found nowhere
includesNonEmpty(s, sub) ==
    sub # <<>> /\ \E i \in 0..(Len(s) - Len(sub)) : SubSeq(s, i + 1, i + Len(sub)) = sub

\* String.prototype.includes
includes(s, sub) == \E i \in 0..(Len(s) - Len(sub)) : SubSeq(s, i + 1, i + Len(sub)) = sub

\* Array.prototype.includes on an array of identifiers or of strings
arrayIncludes(arr, x) == \E i \in 1..Len(arr) : arr[i] = x

\* a JavaScript value that is either a string or absent (undefined)
Undefined == [has |-> FALSE, v |-> <<>>]
Str(s) == [has |-> TRUE, v |-> s]

\* truthiness of such a value: undefined and "" are falsy
Truthy(x) == x.has /\ x.v # <<>>

\* ------------------------------------------------------- handleGeminiError
MsgDefault == <<"A","n"," ","A","I"," ","f","e","a","t","u","r","e"," ","f","a","i","l","e","d","."," ","P","l","e","a","s","e"," ","t","r","y"," ","a","g","a","i","n","."," ","I","f"," ","t","h","e"," ","p","r","o","b","l","e","m"," ","p","e","r","s","i","s","t","s",","," ","c","h","e","c","k"," ","y","o","u","r"," ","c","o","n","n","e","c","t","i","o","n"," ","o","r"," ","t","h","e"," ","s","e","r","v","e","r"," ","l","o","g","s",".">>
MsgInvalidKey == <<"A","I"," ","E","r","r","o","r",":"," ","T","h","e"," ","A","P","I"," ","k","e","y"," ","c","o","n","f","i","g","u","r","e","d"," ","o","n"," ","t","h","e"," ","s","e","r","v","e","r"," ","i","s"," ","i","n","v","a","l","i","d",".">>
MsgQuota == <<"A","I"," ","E","r","r","o","r",":"," ","A","P","I"," ","q","u","o","t","a"," ","e","x","c","e","e","d","e","d","."," ","P","l","e","a","s","e"," ","c","h","e","c","k"," ","y","o","u","r"," ","b","i","l","l","i","n","g"," ","d","e","t","a","i","l","s",".">>
MsgCommunication == <<"A","I"," ","C","o","m","m","u","n","i","c","a","t","i","o","n"," ","E","r","r","o","r",":"," ","C","o","u","l","d"," ","n","o","t"," ","c","o","n","n","e","c","t"," ","t","o"," ","t","h","e"," ","s","e","c","u","r","e"," ","A","I"," ","p","r","o","x","y","."," ","P","l","e","a","s","e"," ","c","h","e","c","k"," ","y","o","u","r"," ","n","e","t","w","o","r","k"," ","c","o","n","n","e","c","t","i","o","n",".">>
PrefixGeneric == <<"A","I"," ","E","r","r","o","r",":"," ">>

PatKeyNotValid == <<"a","p","i"," ","k","e","y"," ","n","o","t"," ","v","a","l","i","d">>
PatKeyInvalid == <<"a","p","i","_","k","e","y","_","i","n","v","a","l","i","d">>
PatQuota == <<"q","u","o","t","a">>
PatFailedToCall == <<"f","a","i","l","e","d"," ","t","o"," ","c","a","l","l"," ","t","h","e"," ","a","i"," ","s","e","r","v","i","c","e">>

\* variant: the quota rule tried before the credential rule
handleGeminiErrorQuotaFirst(error) ==
    IF error.has
    THEN LET lowerMessage == toLowerCase(error.v) IN
         IF includes(lowerMessage, PatQuota)
         THEN MsgQuota
         ELSE IF includes(lowerMessage, PatKeyNotValid) \/ includes(lowerMessage, PatKeyInvalid)
         THEN MsgInvalidKey
         ELSE IF includes(lowerMessage, PatFailedToCall)
         THEN MsgCommunication
         ELSE PrefixGeneric \o error.v
    ELSE MsgDefault

\* variant: the generic message embeds the lower-cased text
handleGeminiErrorLowerEmbed(error) ==
    IF error.has
    THEN LET lowerMessage == toLowerCase(error.v) IN
         IF includes(lowerMessage, PatKeyNotValid) \/ includes(lowerMessage, PatKeyInvalid)
         THEN MsgInvalidKey
         ELSE IF includes(lowerMessage, PatQuota)
         THEN MsgQuota
         ELSE IF includes(lowerMessage, PatFailedToCall)
         THEN MsgCommunication
         ELSE PrefixGeneric \o lowerMessage
    ELSE MsgDefault

\* error: a string-or-absent message (error && typeof error.message === 'string')
handleGeminiError(error) ==
    IF error.has
    THEN LET lowerMessage == toLowerCase(error.v) IN
         IF includes(lowerMessage, PatKeyNotValid) \/ includes(lowerMessage, PatKeyInvalid)
         THEN MsgInvalidKey
         ELSE IF includes(lowerMessage, PatQuota)
         THEN MsgQuota
         ELSE IF includes(lowerMessage, PatFailedToCall)
         THEN MsgCommunication
         ELSE PrefixGeneric \o error.v
    ELSE MsgDefault

\* --------------------------------------------------------------- callApiProxy
MsgProxyFallback == <<"F","a","i","l","e","d"," ","t","o"," ","c","a","l","l"," ","t","h","e"," ","A","I"," ","s","e","r","v","i","c","e"," ","v","i","a"," ","p","r","o","x","y",".">>
MsgFetchFailed == <<"F","a","i","l","e","d"," ","t","o"," ","f","e","t","c","h">>
MsgJsonSyntax == <<"U","n","e","x","p","e","c","t","e","d"," ","t","o","k","e","n"," ","<"," ","i","n"," ","J","S","O","N"," ","a","t"," ","p","o","s","i","t","i","o","n"," ","0">>

\* outcome of an async function: a returned value or a raised raw error
Return(v) == [raised |-> FALSE, value |-> v, error |-> Undefined]
Raise(e) == [raised |-> TRUE, value |-> <<>>, error |-> e]

\* variant: the body's error is looked at before its details
OrElseErrorFirst(a, b, c) == IF Truthy(b) THEN b.v ELSE IF Truthy(a) THEN a.v ELSE c

\* a || b || c on string-or-absent values, c a non-empty literal
OrElse(a, b, c) == IF Truthy(a) THEN a.v ELSE IF Truthy(b) THEN b.v ELSE c

\* net: what fetch produced, a rejection or an HTTP response
callApiProxy(net) ==
    IF net.kind = "reject"
    THEN Raise(Str(net.rejectMessage))
    ELSE IF ~net.ok
    THEN IF net.bodyIsJson
         THEN Raise(Str(OrElse(net.errorData.details, net.errorData.error, MsgProxyFallback)))
         ELSE Raise(Str(MsgJsonSyntax))
    ELSE Return(net.response)

\* ------------------------------------------------- processAttendanceCommand
MsgNoArgs == <<"C","a","n","n","o","t"," ","r","e","a","d"," ","p","r","o","p","e","r","t","i","e","s"," ","o","f"," ","u","n","d","e","f","i","n","e","d"," ","(","r","e","a","d","i","n","g"," ","'","s","t","a","t","u","s","'",")">>
MsgMapNotFunction == <<"a","r","g","s",".","s","t","u","d","e","n","t","_","n","a","m","e","s",".","m","a","p"," ","i","s"," ","n","o","t"," ","a"," ","f","u","n","c","t","i","o","n">>
MsgLowerNotFunction == <<"n",".","t","o","L","o","w","e","r","C","a","s","e"," ","i","s"," ","n","o","t"," ","a"," ","f","u","n","c","t","i","o","n">>
All == <<"a","l","l">>

\* what the function hands to its caller
Intent(status, studentIds) == [kind |-> "intent", status |-> status, studentIds |-> studentIds, message |-> <<>>]
Null == [kind |-> "null", status |-> <<>>, studentIds |-> <<>>, message |-> <<>>]
Throw(message) == [kind |-> "throw", status |-> <<>>, studentIds |-> <<>>, message |-> message]
Pending == [kind |-> "pending", status |-> <<>>, studentIds |-> <<>>, message |-> <<>>]

\* the predicate handed to students.find
studentMatches(s, name) ==
    LET fullName == toLowerCase(s.firstName \o <<" ">> \o s.lastName)
        lastNameFirst == toLowerCase(s.lastName \o <<" ">> \o s.firstName)
    IN  \/ includes(fullName, name)
        \/ includes(lastNameFirst, name)
        \/ includes(toLowerCase(s.firstName), name)
        \/ includes(toLowerCase(s.lastName), name)

\* variant: the last matching entry instead of the first
findLast(students, name, i) ==
    LET M == {j \in i..Len(students) : studentMatches(students[j], name)} IN
    IF M = {} THEN 0 ELSE CHOOSE j \in M : \A k \in M : k <= j

\* Array.prototype.find from position i on; 0 stands for undefined
RECURSIVE find(_, _, _)
find(students, name, i) ==
    IF i > Len(students) THEN 0
    ELSE IF studentMatches(students[i], name) THEN i
    ELSE find(students, name, i + 1)

\* variant: a new identifier goes to the front
pushFront(students, studentIds, f) ==
    IF f # 0 /\ ~arrayIncludes(studentIds, students[f].id)
    THEN <<students[f].id>> \o studentIds
    ELSE studentIds

\* variant: push without looking for the identifier first
pushAlways(students, studentIds, f) ==
    IF f # 0 THEN Append(studentIds, students[f].id) ELSE studentIds

\* if (foundStudent && !studentIds.includes(foundStudent.id)) studentIds.push(...)
pushIfNew(students, studentIds, f) ==
    IF f # 0 /\ ~arrayIncludes(studentIds, students[f].id)
    THEN Append(studentIds, students[f].id)
    ELSE studentIds

\* for (const name of lowerCaseNames) { ... }, from candidate k on
RECURSIVE resolveNames(_, _, _, _)
resolveNames(students, lowerCaseNames, k, studentIds) ==
    IF k > Len(lowerCaseNames) THEN studentIds
    ELSE resolveNames(students, lowerCaseNames, k + 1,
                      pushIfNew(students, studentIds, find(students, lowerCaseNames[k], 1)))

\* students.map(s => s.id)
allIds(students) == [i \in 1..Len(students) |-> students[i].id]

\* variant: a status outside present, absent, late is refused
resolveIntentValidated(students, status, lowerCaseNames) ==
    IF status \notin {<<"p","r","e","s","e","n","t">>, <<"a","b","s","e","n","t">>, <<"l","a","t","e">>} THEN Null
    ELSE IF arrayIncludes(lowerCaseNames, All)
    THEN Intent(status, allIds(students))
    ELSE Intent(status, resolveNames(students, lowerCaseNames, 1, <<>>))

\* variant: no short-circuit on "all"
resolveIntentNoAll(students, status, lowerCaseNames) ==
    Intent(status, resolveNames(students, lowerCaseNames, 1, <<>>))

\* variant: nothing matched is reported as no intent
resolveIntentNullWhenEmpty(students, status, lowerCaseNames) ==
    IF arrayIncludes(lowerCaseNames, All)
    THEN Intent(status, allIds(students))
    ELSE LET ids == resolveNames(students, lowerCaseNames, 1, <<>>) IN
         IF ids = <<>> THEN Null ELSE Intent(status, ids)

\* if (lowerCaseNames.includes("all")) ... else the loop
resolveIntent(students, status, lowerCaseNames) ==
    IF arrayIncludes(lowerCaseNames, All)
    THEN Intent(status, allIds(students))
    ELSE Intent(status, resolveNames(students, lowerCaseNames, 1, <<>>))

\* variant: only status is validated
argsInvalidStatusOnly(args) == ~Truthy(args.status)

\* !args.status || !args.student_names : undefined and "" are falsy, [] is not
argsInvalid(args) ==
    \/ ~Truthy(args.status)
    \/ args.student_names.kind = "missing"

\* variant: the tool call is used without checking that there is one
interpretResponseNoCallCheck(students, response) ==
    IF ~response.hasCall \/ ~response.hasArgs THEN Raise(Str(MsgNoArgs))
    ELSE IF argsInvalid(response.args) THEN Return(Null)
    ELSE IF response.args.student_names.kind # "array" THEN Raise(Str(MsgMapNotFunction))
    ELSE LET items == response.args.student_names.items IN
         IF \E i \in 1..Len(items) : ~items[i].isString
         THEN Raise(Str(MsgLowerNotFunction))
         ELSE Return(resolveIntent(students, response.args.status.v,
                                   [i \in 1..Len(items) |-> toLowerCase(items[i].v)]))

\* the body of the try block after the proxy answered
interpretResponse(students, response) ==
    IF ~response.hasCall THEN Return(Null)
    ELSE IF ~response.hasArgs THEN Raise(Str(MsgNoArgs))
    ELSE IF argsInvalid(response.args) THEN Return(Null)
    ELSE IF response.args.student_names.kind # "array" THEN Raise(Str(MsgMapNotFunction))
    ELSE LET items == response.args.student_names.items IN
         IF \E i \in 1..Len(items) : ~items[i].isString
         THEN Raise(Str(MsgLowerNotFunction))
         ELSE Return(resolveIntent(students, response.args.status.v,
                                   [i \in 1..Len(items) |-> toLowerCase(items[i].v)]))

\* variant: a failed proxy call is swallowed into the sentinel
processAttendanceCommandSwallow(students, net) ==
    LET r == callApiProxy(net) IN
    IF r.raised THEN Null
    ELSE LET x == interpretResponse(students, r.value) IN
         IF x.raised THEN Throw(handleGeminiError(x.error)) ELSE x.value

\* try { ... } catch (error) { throw handleGeminiError(error, ...) }
processAttendanceCommand(students, net) ==
    LET r == callApiProxy(net) IN
    IF r.raised THEN Throw(handleGeminiError(r.error))
    ELSE LET x == interpretResponse(students, r.value) IN
         IF x.raised THEN Throw(handleGeminiError(x.error)) ELSE x.value

\* ------------------------------------------------------------- JSON.parse
\* JSON values one level deep: null, a string, an empty array, or an object
\* whose members are such scalars
JNull == [t |-> "null", s |-> <<>>, members |-> <<>>]
JString(s) == [t |-> "string", s |-> s, members |-> <<>>]
JArray == [t |-> "array", s |-> <<>>, members |-> <<>>]
JObject(members) == [t |-> "object", s |-> <<>>, members |-> members]

Parsed(value, next) == [ok |-> TRUE, value |-> value, next |-> next]
ParseFailed == [ok |-> FALSE, value |-> JNull, next |-> 0]

Quote == "\""

RECURSIVE skipWs(_, _)
skipWs(s, i) == IF i <= Len(s) /\ s[i] = " " THEN skipWs(s, i + 1) ELSE i

\* String.prototype.trim
RECURSIVE trimEnd(_)
trimEnd(s) == IF s # <<>> /\ s[Len(s)] = " " THEN trimEnd(SubSeq(s, 1, Len(s) - 1)) ELSE s

trim(s) == LET t == trimEnd(s) IN SubSeq(t, skipWs(t, 1), Len(t))

RECURSIVE closingQuote(_, _)
closingQuote(s, j) ==
    IF j > Len(s) THEN 0 ELSE IF s[j] = Quote THEN j ELSE closingQuote(s, j + 1)

startsWith(s, i, lit) == i + Len(lit) - 1 <= Len(s) /\ SubSeq(s, i, i + Len(lit) - 1) = lit

parseScalar(s, i) ==
    IF i > Len(s) THEN ParseFailed
    ELSE IF s[i] = Quote
    THEN LET j == closingQuote(s, i + 1) IN
         IF j = 0 THEN ParseFailed ELSE Parsed(JString(SubSeq(s, i + 1, j - 1)), j + 1)
    ELSE IF startsWith(s, i, <<"n","u","l","l">>) THEN Parsed(JNull, i + 4)
    ELSE IF startsWith(s, i, <<"[","]">>) THEN Parsed(JArray, i + 2)
    ELSE ParseFailed

\* the members of an object from position i on, acc the members read so far
RECURSIVE parseMembers(_, _, _)
parseMembers(s, i, acc) ==
    LET k == parseScalar(s, skipWs(s, i)) IN
    IF ~k.ok \/ k.value.t # "string" THEN ParseFailed
    ELSE LET c == skipWs(s, k.next) IN
         IF c > Len(s) \/ s[c] # ":" THEN ParseFailed
         ELSE LET v == parseScalar(s, skipWs(s, c + 1)) IN
              IF ~v.ok THEN ParseFailed
              ELSE LET e == skipWs(s, v.next)
                       acc2 == Append(acc, [key |-> k.value.s, value |-> v.value])
                   IN  IF e > Len(s) THEN ParseFailed
                       ELSE IF s[e] = "," THEN parseMembers(s, e + 1, acc2)
                       ELSE IF s[e] = "}" THEN Parsed(JObject(acc2), e + 1)
                       ELSE ParseFailed

parseValue(s, i) ==
    IF i <= Len(s) /\ s[i] = "{"
    THEN LET j == skipWs(s, i + 1) IN
         IF j <= Len(s) /\ s[j] = "}" THEN Parsed(JObject(<<>>), j + 1)
         ELSE parseMembers(s, i + 1, <<>>)
    ELSE parseScalar(s, i)

\* JSON.parse: the whole text must be one value
JSONparse(s) ==
    LET v == parseValue(s, skipWs(s, 1)) IN
    IF v.ok /\ skipWs(s, v.next) = Len(s) + 1 THEN v ELSE ParseFailed

\* a JavaScript value a generator may return: a JSON value or undefined
JsUndefined == [defined |-> FALSE, json |-> JNull]
Js(json) == [defined |-> TRUE, json |-> json]

\* result.key on a non-null value: the last member of that name, else undefined
getProperty(json, key) ==
    LET M == {n \in 1..Len(json.members) : json.members[n].key = key} IN
    IF M = {} THEN JsUndefined
    ELSE Js(json.members[CHOOSE n \in M : \A m \in M : m <= n].value)

\* !x : undefined, null and "" are falsy
Falsy(x) == ~x.defined \/ x.json.t = "null" \/ (x.json.t = "string" /\ x.json.s = <<>>)

\* ---------------------------------------------------------------- generators
MsgInvalidQuote == <<"A","I"," ","r","e","t","u","r","n","e","d"," ","a","n"," ","i","n","v","a","l","i","d"," ","q","u","o","t","e"," ","s","t","r","u","c","t","u","r","e",".">>
MsgNoText == <<"C","a","n","n","o","t"," ","r","e","a","d"," ","p","r","o","p","e","r","t","i","e","s"," ","o","f"," ","u","n","d","e","f","i","n","e","d"," ","(","r","e","a","d","i","n","g"," ","'","t","r","i","m","'",")">>
MsgJsonEnd == <<"U","n","e","x","p","e","c","t","e","d"," ","e","n","d"," ","o","f"," ","J","S","O","N"," ","i","n","p","u","t">>

\* the TypeError of result.<key> on null
nullPropertyMessage(key) == <<"C","a","n","n","o","t"," ","r","e","a","d"," ","p","r","o","p","e","r","t","i","e","s"," ","o","f"," ","n","u","l","l"," ","(","r","e","a","d","i","n","g"," ","'">> \o key \o <<"'",")">>

\* generators that return the parsed value as it is
WholeGenerators == {"analyzeStudentPerformance", "generateReportCardComment", "generateDlpContent",
                    "generateQuizContent", "generateDllContent"}

\* generators that return one field of the parsed value
FieldGenerators == {"extractGradesFromImage", "rephraseAnecdote", "generateCertificateContent",
                    "generateRubricForActivity"}

Generators == WholeGenerators \cup FieldGenerators \cup {"getInspirationalQuote"}

\* the field a generator reads: return result.<field>
resultField(fn) ==
    CASE fn = "extractGradesFromImage" -> <<"g","r","a","d","e","s">>
      [] fn = "rephraseAnecdote" -> <<"r","e","v","i","s","e","d","T","e","x","t">>
      [] fn = "generateCertificateContent" -> <<"c","e","r","t","i","f","i","c","a","t","e","T","e","x","t">>
      [] fn = "generateRubricForActivity" -> <<"r","u","b","r","i","c","I","t","e","m","s">>

\* const model = ...
generatorModel(fn) ==
    IF fn \in {"analyzeStudentPerformance", "generateReportCardComment", "generateDlpContent",
               "generateQuizContent", "generateDllContent"}
    THEN "gemini-2.5-pro" ELSE "gemini-2.5-flash"

Value(v) == [kind |-> "value", value |-> v, message |-> <<>>]

\* the top-level required list of a generator's response schema
requiredFields(fn) ==
    CASE fn = "rephraseAnecdote" -> {<<"r","e","v","i","s","e","d","T","e","x","t">>}
      [] fn = "generateCertificateContent" -> {<<"c","e","r","t","i","f","i","c","a","t","e","T","e","x","t">>}
      [] fn = "generateRubricForActivity" -> {<<"r","u","b","r","i","c","I","t","e","m","s">>}
      [] fn = "getInspirationalQuote" -> {<<"q","u","o","t","e">>, <<"a","u","t","h","o","r">>}
      [] fn = "generateReportCardComment" -> {<<"s","t","r","e","n","g","t","h","s">>, <<"a","r","e","a","s","F","o","r","I","m","p","r","o","v","e","m","e","n","t">>, <<"c","l","o","s","i","n","g","S","t","a","t","e","m","e","n","t">>}
      [] OTHER -> {}

\* variant: the quote is returned without looking at its fields
useResultNoQuoteCheck(fn, json) ==
    IF fn \in WholeGenerators \/ fn = "getInspirationalQuote" THEN Return(Value(Js(json)))
    ELSE IF json.t = "null" THEN Raise(Str(nullPropertyMessage(resultField(fn))))
    ELSE Return(Value(getProperty(json, resultField(fn))))

\* what a generator does with the parsed result
useResult(fn, json) ==
    IF fn \in WholeGenerators THEN Return(Value(Js(json)))
    ELSE IF fn = "getInspirationalQuote"
    THEN IF json.t = "null" THEN Raise(Str(nullPropertyMessage(<<"q","u","o","t","e">>)))
         ELSE IF Falsy(getProperty(json, <<"q","u","o","t","e">>)) \/ Falsy(getProperty(json, <<"a","u","t","h","o","r">>))
         THEN Raise(Str(MsgInvalidQuote))
         ELSE Return(Value(Js(json)))
    ELSE IF json.t = "null" THEN Raise(Str(nullPropertyMessage(resultField(fn))))
    ELSE Return(Value(getProperty(json, resultField(fn))))

\* response.text.trim(), JSON.parse, then the generator's own use of the result
interpretText(fn, response) ==
    IF ~response.text.has THEN Raise(Str(MsgNoText))
    ELSE LET p == JSONparse(trim(response.text.v)) IN
         IF ~p.ok THEN Raise(Str(MsgJsonEnd)) ELSE useResult(fn, p.value)

\* try { ... } catch (error) { throw handleGeminiError(error, ...) } of a generator
generate(fn, net) ==
    LET r == callApiProxy(net) IN
    IF r.raised THEN Throw(handleGeminiError(r.error))
    ELSE LET x == interpretText(fn, r.value) IN
         IF x.raised THEN Throw(handleGeminiError(x.error)) ELSE x.value

\* ------------------------------------------------------------ /api/gemini
MsgKeyNotSet == <<"A","P","I","_","K","E","Y"," ","i","s"," ","n","o","t"," ","s","e","t"," ","i","n"," ","e","n","v","i","r","o","n","m","e","n","t"," ","v","a","r","i","a","b","l","e","s",".">>
MsgMethodNotAllowed == <<"M","e","t","h","o","d"," ","n","o","t"," ","a","l","l","o","w","e","d">>
MsgRouteError == <<"A","n"," ","e","r","r","o","r"," ","o","c","c","u","r","r","e","d"," ","w","h","i","l","e"," ","c","o","m","m","u","n","i","c","a","t","i","n","g"," ","w","i","t","h"," ","t","h","e"," ","A","I"," ","s","e","r","v","i","c","e",".">>

NoResponse == [hasCall |-> FALSE, hasArgs |-> FALSE,
               args |-> [status |-> Undefined, student_names |-> [kind |-> "missing", items |-> <<>>]],
               text |-> Undefined]
NoErrorData == [details |-> Undefined, error |-> Undefined]
NoNet == [kind |-> "none", ok |-> FALSE, status |-> 0, bodyIsJson |-> FALSE,
          errorData |-> NoErrorData, response |-> NoResponse, rejectMessage |-> <<>>]

\* variant: only the text of the provider's response is relayed
respond200TextOnly(response) == [NoNet EXCEPT !.kind = "response", !.ok = TRUE, !.status = 200,
                                              !.bodyIsJson = TRUE,
                                              !.response = [NoResponse EXCEPT !.text = response.text]]

\* res.status(200).json(response); the provider's response is plain JSON data
respond200(response) == [NoNet EXCEPT !.kind = "response", !.ok = TRUE, !.status = 200,
                                      !.bodyIsJson = TRUE, !.response = response]

\* variant: the failure's message is kept out of the body
respond500NoDetails(message) == [NoNet EXCEPT !.kind = "response", !.status = 500, !.bodyIsJson = TRUE,
                                              !.errorData = [details |-> Undefined, error |-> Str(MsgRouteError)]]

\* res.status(405).json({ error: 'Method not allowed' })
respond405 == [NoNet EXCEPT !.kind = "response", !.status = 405, !.bodyIsJson = TRUE,
                            !.errorData = [details |-> Undefined, error |-> Str(MsgMethodNotAllowed)]]

\* res.status(500).json({ error: ..., details: error.message })
respond500(message) == [NoNet EXCEPT !.kind = "response", !.status = 500, !.bodyIsJson = TRUE,
                                     !.errorData = [details |-> message, error |-> Str(MsgRouteError)]]

\* ------------------------------------------------------------------ inputs
Persons == { [firstName |-> <<"A","n","a">>, lastName |-> <<"G","o","m","e","z">>],
             [firstName |-> <<"M","a","r","i","a","n","a">>, lastName |-> <<"C","r","u","z">>],
             [firstName |-> <<"A","l","l","a","n">>, lastName |-> <<"G","o","m","e","z">>] }

\* identifiers are opaque and distinct: numbered along the roster, or against it
IdOrders(n) == { [i \in 1..n |-> i], [i \in 1..n |-> n + 1 - i] }

Student(id, p) == [id |-> id, firstName |-> p.firstName, lastName |-> p.lastName]

\* rosters: ordered, identifiers distinct, names free to repeat
Rosters == UNION { { [i \in 1..n |-> Student(ids[i], ps[i])] :
                       ids \in IdOrders(n), ps \in [1..n -> Persons] } : n \in 0..MaxRoster }

JsString(s) == [isString |-> TRUE, v |-> s]
JsNumber == [isString |-> FALSE, v |-> <<>>]

Candidates == { JsString(<<"A","L","L">>), JsString(<<"a","L","l">>), JsString(<<"A","n","a">>), JsString(<<"G","O","M","E","Z"," ","a","n","a">>),
                JsString(<<"a"," ","g">>), JsString(<<>>), JsString(<<"C","a","r","l","o","s">>) }

\* student_names: absent, a bare string, an array holding a number, or an array of strings
NameValues == { [kind |-> "missing", items |-> <<>>], [kind |-> "string", items |-> <<>>],
                [kind |-> "array", items |-> <<JsNumber>>] }
              \cup UNION { { [kind |-> "array", items |-> xs] : xs \in [1..n -> Candidates] } : n \in 0..MaxNames }

StatusValues == { Undefined, Str(<<>>), Str(<<"a","b","s","e","n","t">>), Str(<<"e","x","c","u","s","e","d">>) }

\* what the provider may send back through the route
Responses == { NoResponse, [NoResponse EXCEPT !.hasCall = TRUE] }
             \cup { [NoResponse EXCEPT !.hasCall = TRUE, !.hasArgs = TRUE,
                                       !.args = [status |-> st, student_names |-> nv]] :
                      st \in StatusValues, nv \in NameValues }

\* texts the provider may answer a generator with
Texts == { <<"{","\"","q","u","o","t","e","\"",":","\"","Q","\"",",","\"","a","u","t","h","o","r","\"",":","\"","A","\"","}">>,
           <<" ","{","\"","q","u","o","t","e","\"",":"," ","\"","Q","\"",","," ","\"","a","u","t","h","o","r","\"",":"," ","\"","A","\"","}"," "," ">>,
           <<"{","\"","q","u","o","t","e","\"",":","\"","\"",",","\"","a","u","t","h","o","r","\"",":","\"","A","\"","}">>,
           <<"{","\"","q","u","o","t","e","\"",":","\"","Q","\"",",","\"","a","u","t","h","o","r","\"",":","n","u","l","l","}">>,
           <<"{","\"","a","u","t","h","o","r","\"",":","\"","A","\"","}">>,
           <<"{","\"","g","r","a","d","e","s","\"",":","[","]",",","\"","r","u","b","r","i","c","I","t","e","m","s","\"",":","[","]","}">>,
           <<"{","\"","r","e","v","i","s","e","d","T","e","x","t","\"",":","\"","R","\"",",","\"","c","e","r","t","i","f","i","c","a","t","e","T","e","x","t","\"",":","\"","C","\"","}">>,
           <<"{","}">>,
           <<"n","u","l","l">>,
           <<"[","]">>,
           <<"{","\"","q","u","o","t","e","\"",":","\"","Q","\"">>,
           <<>> }

TextResponses == { NoResponse } \cup { [NoResponse EXCEPT !.text = Str(t)] : t \in Texts }

\* what the provider may answer a request with: tool calls where a tool was
\* declared, a text otherwise
ResponsesFor(body) == IF body.tools THEN Responses ELSE TextResponses

\* messages of the failures generateContent may raise (none: a raised non-Error)
ProviderErrors == { Str(<<"A","P","I"," ","k","e","y"," ","n","o","t"," ","v","a","l","i","d","."," ","P","l","e","a","s","e"," ","p","a","s","s"," ","a"," ","v","a","l","i","d"," ","A","P","I"," ","k","e","y",".">>),
                    Str(<<"Q","u","o","t","a"," ","e","x","c","e","e","d","e","d"," ","f","o","r"," ","q","u","o","t","a"," ","m","e","t","r","i","c">>),
                    Str(<<"T","h","e"," ","m","o","d","e","l"," ","i","s"," ","o","v","e","r","l","o","a","d","e","d",".">>),
                    Str(<<>>),
                    Undefined }

Fragments == { <<"A","P","I"," ","k","e","y"," ","n","o","t"," ","v","a","l","i","d">>, <<"A","P","I","_","K","E","Y","_","I","N","V","A","L","I","D">>, <<"a","p","i"," ","k","e","y"," ","i","n","v","a","l","i","d">>, <<"Q","u","o","t","a">>,
               <<"F","a","i","l","e","d"," ","t","o"," ","c","a","l","l"," ","t","h","e"," ","A","I"," ","s","e","r","v","i","c","e">>, <<"O","o","p","s"," ">>, <<".">> }

RECURSIVE concat(_)
concat(ss) == IF ss = <<>> THEN <<>> ELSE Head(ss) \o concat(Tail(ss))

\* raw failures handed to the classifier: no message, or fragments strung together
RawErrors == { Undefined } \cup
             UNION { { Str(concat(fs)) : fs \in [1..n -> Fragments] } : n \in 0..MaxFrags }

\* ---------------------------------------------------------- request bodies
\* students.map(s => `${s.firstName} ${s.lastName}`).join(', ')
RECURSIVE studentList(_)
studentList(students) ==
    IF students = <<>> THEN <<>>
    ELSE LET s == Head(students)
             one == s.firstName \o <<" ">> \o s.lastName
         IN  IF Len(students) = 1 THEN one
             ELSE one \o <<",", " ">> \o studentList(Tail(students))

\* the model options processAttendanceCommand hands to callApiProxy
attendanceOptions(students) ==
    [model |-> "gemini-2.5-flash", contents |-> studentList(students), tools |-> TRUE,
     responseSchema |-> "none"]

\* the model options of a generator: its model and its response schema; the
\* prompt text is left out
generatorOptions(fn) ==
    [model |-> generatorModel(fn), contents |-> <<>>, tools |-> FALSE, responseSchema |-> fn]

\* the model options checkApiStatus sends
testOptions == [model |-> "gemini-2.5-flash", contents |-> <<"t","e","s","t">>, tools |-> FALSE,
                responseSchema |-> "none"]

NoOptions == [model |-> "", contents |-> <<>>, tools |-> FALSE, responseSchema |-> "none"]
NoReq == [method |-> "none", body |-> NoOptions]
NoAnswer == [kind |-> "none", response |-> NoResponse, error |-> Undefined]
NoReturn == [raised |-> FALSE, value |-> <<>>, error |-> Undefined]

\* variant: the method is not looked at
methodAllowedAny(method) == TRUE

\* req.method !== 'POST' is answered 405
methodAllowed(method) == method = "POST"

\* requests any client may send to the route
Methods == {"POST", "GET", "PUT"}
Bodies == {testOptions, attendanceOptions(<<>>), NoOptions}

\* ------------------------------------------------------------------- state
VARIABLES
    students,       \* the roster handed to processAttendanceCommand
    apiKey,         \* process.env.API_KEY is set
    pc,             \* where the client call stands
    handler,        \* where the route handler stands
    net,            \* what fetch resolves or rejects with
    error,          \* the raw error handed to handleGeminiError
    outcome,        \* what the call handed to its caller
    fn,             \* the exported function that was called
    dispatches,     \* number of fetches issued
    req,            \* the request the route handler received
    keyRead,        \* the handler has read process.env.API_KEY
    providerCalls,  \* the model options handed to generateContent, in order
    sent,           \* the responses the handler sent, in order
    providerAnswer, \* what generateContent resolved or rejected with
    proxyReturn,    \* what callApiProxy handed to its caller
    calls           \* the calls running side by side, each with its own locals

clientVars == <<students, fn, pc, error, outcome, dispatches, proxyReturn>>
serverVars == <<apiKey, handler, req, keyRead, providerCalls, sent, providerAnswer>>
vars == <<clientVars, serverVars, net, calls>>

ServerIdle ==
    /\ handler = "none"
    /\ req = NoReq
    /\ keyRead = FALSE
    /\ providerCalls = <<>>
    /\ sent = <<>>
    /\ providerAnswer = NoAnswer

Init ==
    /\ students \in Rosters
    /\ fn = "processAttendanceCommand"
    /\ apiKey \in BOOLEAN
    /\ pc = "idle"
    /\ ServerIdle
    /\ net = NoNet
    /\ error = Undefined
    /\ outcome = Pending
    /\ dispatches = 0
    /\ proxyReturn = NoReturn
    /\ calls = <<>>

\* processAttendanceCommand up to the await of fetch('/api/gemini', { method: 'POST', ... })
Dispatch ==
    /\ UNCHANGED calls
    /\ fn = "processAttendanceCommand"
    /\ pc = "idle"
    /\ pc' = "awaiting"
    /\ handler' = "received"
    /\ req' = [method |-> "POST", body |-> attendanceOptions(students)]
    /\ dispatches' = dispatches + 1
    /\ UNCHANGED <<students, fn, error, outcome, proxyReturn>>
    /\ UNCHANGED <<apiKey, keyRead, providerCalls, sent, providerAnswer, net>>

\* a generator up to the await of fetch('/api/gemini', { method: 'POST', ... })
DispatchGenerator ==
    /\ UNCHANGED calls
    /\ fn \in Generators
    /\ pc = "idle"
    /\ pc' = "awaiting"
    /\ handler' = "received"
    /\ req' = [method |-> "POST", body |-> generatorOptions(fn)]
    /\ dispatches' = dispatches + 1
    /\ UNCHANGED <<students, fn, error, outcome, proxyReturn>>
    /\ UNCHANGED <<apiKey, keyRead, providerCalls, sent, providerAnswer, net>>

\* handler: req.method !== 'POST': 405 and return
HandlerRejectMethod ==
    /\ UNCHANGED calls
    /\ handler = "received"
    /\ net.kind = "none"
    /\ ~methodAllowed(req.method)
    /\ handler' = "responded"
    /\ net' = respond405
    /\ sent' = Append(sent, respond405)
    /\ UNCHANGED <<apiKey, req, keyRead, providerCalls, providerAnswer>>
    /\ UNCHANGED clientVars

\* handler: POST, API_KEY unset: throw, caught, 500
HandlerMissingKey ==
    /\ UNCHANGED calls
    /\ handler = "received"
    /\ net.kind = "none"
    /\ methodAllowed(req.method)
    /\ keyRead' = TRUE
    /\ ~apiKey
    /\ handler' = "responded"
    /\ net' = respond500(Str(MsgKeyNotSet))
    /\ sent' = Append(sent, respond500(Str(MsgKeyNotSet)))
    /\ UNCHANGED <<apiKey, req, providerCalls, providerAnswer>>
    /\ UNCHANGED clientVars

\* handler: POST, API_KEY set: await ai.models.generateContent(req.body)
HandlerCallProvider ==
    /\ UNCHANGED calls
    /\ handler = "received"
    /\ net.kind = "none"
    /\ methodAllowed(req.method)
    /\ keyRead' = TRUE
    /\ apiKey
    /\ providerCalls' = Append(providerCalls, req.body)
    /\ handler' = "provider"
    /\ UNCHANGED <<apiKey, req, sent, providerAnswer, net>>
    /\ UNCHANGED clientVars

\* generateContent resolved: 200 with the provider's response
ProviderReturns ==
    /\ UNCHANGED calls
    /\ handler = "provider"
    /\ net.kind = "none"
    /\ \E response \in ResponsesFor(req.body) :
          /\ providerAnswer' = [NoAnswer EXCEPT !.kind = "returned", !.response = response]
          /\ net' = respond200(response)
          /\ sent' = Append(sent, respond200(response))
    /\ handler' = "responded"
    /\ UNCHANGED <<apiKey, req, keyRead, providerCalls>>
    /\ UNCHANGED clientVars

\* generateContent rejected: caught, 500 with details: error.message
ProviderThrows ==
    /\ UNCHANGED calls
    /\ handler = "provider"
    /\ net.kind = "none"
    /\ \E e \in ProviderErrors :
          /\ providerAnswer' = [NoAnswer EXCEPT !.kind = "threw", !.error = e]
          /\ net' = respond500(e)
          /\ sent' = Append(sent, respond500(e))
    /\ handler' = "responded"
    /\ UNCHANGED <<apiKey, req, keyRead, providerCalls>>
    /\ UNCHANGED clientVars

\* the request or its answer is lost: fetch rejects
FetchRejects ==
    /\ UNCHANGED calls
    /\ pc = "awaiting"
    /\ net.kind = "none"
    /\ net' = [NoNet EXCEPT !.kind = "reject", !.rejectMessage = MsgFetchFailed]
    /\ UNCHANGED <<clientVars, serverVars>>

\* the platform answers in the route's place with a non-OK page that is not JSON
GatewayError ==
    /\ UNCHANGED calls
    /\ pc = "awaiting"
    /\ net.kind = "none"
    /\ net' = [NoNet EXCEPT !.kind = "response", !.status = 504]
    /\ UNCHANGED <<clientVars, serverVars>>

\* variant: a failed proxy call is dispatched once more
ResumeRetry ==
    /\ UNCHANGED calls
    /\ fn = "processAttendanceCommand"
    /\ pc = "awaiting"
    /\ net.kind # "none"
    /\ LET r == callApiProxy(net)
           x == IF r.raised THEN r ELSE interpretResponse(students, r.value)
       IN  IF r.raised /\ dispatches < 2
           THEN /\ pc' = "idle"
                /\ net' = NoNet
                /\ UNCHANGED <<proxyReturn, error, outcome>>
           ELSE /\ pc' = "done"
                /\ proxyReturn' = r
                /\ error' = x.error
                /\ outcome' = processAttendanceCommand(students, net)
                /\ UNCHANGED net
    /\ UNCHANGED <<students, fn, dispatches, serverVars>>

\* the continuation of processAttendanceCommand once fetch settled
Resume ==
    /\ UNCHANGED calls
    /\ fn = "processAttendanceCommand"
    /\ pc = "awaiting"
    /\ net.kind # "none"
    /\ LET r == callApiProxy(net)
           x == IF r.raised THEN r ELSE interpretResponse(students, r.value)
       IN  /\ proxyReturn' = r
           /\ error' = x.error
           /\ outcome' = processAttendanceCommand(students, net)
    /\ pc' = "done"
    /\ UNCHANGED <<students, fn, dispatches, serverVars, net>>

\* the continuation of a generator once fetch settled
ResumeGenerator ==
    /\ UNCHANGED calls
    /\ fn \in Generators
    /\ pc = "awaiting"
    /\ net.kind # "none"
    /\ LET r == callApiProxy(net)
           x == IF r.raised THEN r ELSE interpretText(fn, r.value)
       IN  /\ proxyReturn' = r
           /\ error' = x.error
           /\ outcome' = generate(fn, net)
    /\ pc' = "done"
    /\ UNCHANGED <<students, fn, dispatches, serverVars, net>>

Next ==
    \/ Dispatch
    \/ HandlerMissingKey
    \/ HandlerCallProvider
    \/ ProviderReturns
    \/ ProviderThrows
    \/ FetchRejects
    \/ GatewayError
    \/ Resume

Spec == Init /\ [][Next]_vars

\* ------------------------------------------- the classifier on its own
InitClassifier ==
    /\ students = <<>>
    /\ fn = "none"
    /\ apiKey = TRUE
    /\ pc = "caught"
    /\ ServerIdle
    /\ net = NoNet
    /\ error \in RawErrors
    /\ outcome = Pending
    /\ dispatches = 0
    /\ proxyReturn = NoReturn
    /\ calls = <<>>

\* throw handleGeminiError(error, functionName)
Classify ==
    /\ UNCHANGED calls
    /\ pc = "caught"
    /\ outcome' = Throw(handleGeminiError(error))
    /\ pc' = "done"
    /\ UNCHANGED <<students, fn, error, dispatches, proxyReturn, serverVars, net>>

NextClassifier == Classify

SpecClassifier == InitClassifier /\ [][NextClassifier]_vars

\* ------------------------------------------------ the generators on their own
InitGenerators ==
    /\ students = <<>>
    /\ fn \in Generators
    /\ apiKey \in BOOLEAN
    /\ pc = "idle"
    /\ ServerIdle
    /\ net = NoNet
    /\ error = Undefined
    /\ outcome = Pending
    /\ dispatches = 0
    /\ proxyReturn = NoReturn
    /\ calls = <<>>

NextGenerators ==
    \/ DispatchGenerator
    \/ HandlerMissingKey
    \/ HandlerCallProvider
    \/ ProviderReturns
    \/ ProviderThrows
    \/ FetchRejects
    \/ GatewayError
    \/ ResumeGenerator

SpecGenerators == InitGenerators /\ [][NextGenerators]_vars

\* --------------------------------------- any one call of an exported function
InitCalls ==
    /\ fn \in Generators \cup {"processAttendanceCommand"}
    /\ students \in (IF fn = "processAttendanceCommand" THEN Rosters ELSE {<<>>})
    /\ apiKey \in BOOLEAN
    /\ pc = "idle"
    /\ ServerIdle
    /\ net = NoNet
    /\ error = Undefined
    /\ outcome = Pending
    /\ dispatches = 0
    /\ proxyReturn = NoReturn
    /\ calls = <<>>

NextCalls ==
    \/ Dispatch
    \/ DispatchGenerator
    \/ HandlerMissingKey
    \/ HandlerCallProvider
    \/ ProviderReturns
    \/ ProviderThrows
    \/ FetchRejects
    \/ GatewayError
    \/ Resume
    \/ ResumeGenerator

SpecCalls == InitCalls /\ [][NextCalls]_vars

\* ------------------------------------------------ calls side by side
NumCalls == 2

ConcurrentRoster == << Student(1, [firstName |-> <<"A","n","a">>, lastName |-> <<"G","o","m","e","z">>]),
                       Student(2, [firstName |-> <<"M","a","r","i","a","n","a">>, lastName |-> <<"C","r","u","z">>]) >>

\* the functions called side by side, with their arguments
ConcurrentInputs == { [fn |-> "processAttendanceCommand", students |-> ConcurrentRoster],
                      [fn |-> "getInspirationalQuote", students |-> <<>>],
                      [fn |-> "rephraseAnecdote", students |-> <<>>] }

\* a few of the provider's answers, per kind of request
ConcurrentResponsesFor(body) ==
    IF body.tools
    THEN { [NoResponse EXCEPT !.hasCall = TRUE, !.hasArgs = TRUE,
                              !.args = [status |-> Str(<<"a","b","s","e","n","t">>),
                                        student_names |-> [kind |-> "array", items |-> <<JsString(<<"A","L","L">>)>>]]],
           [NoResponse EXCEPT !.hasCall = TRUE, !.hasArgs = TRUE,
                              !.args = [status |-> Str(<<"e","x","c","u","s","e","d">>),
                                        student_names |-> [kind |-> "array", items |-> <<JsString(<<"A","n","a">>)>>]]] }
    ELSE { [NoResponse EXCEPT !.text = Str(<<"{","\"","q","u","o","t","e","\"",":","\"","Q","\"",",","\"","a","u","t","h","o","r","\"",":","\"","A","\"","}">>)],
           [NoResponse EXCEPT !.text = Str(<<"{","\"","r","e","v","i","s","e","d","T","e","x","t","\"",":","\"","R","\"",",","\"","c","e","r","t","i","f","i","c","a","t","e","T","e","x","t","\"",":","\"","C","\"","}">>)] }

ConcurrentError == Str(<<"Q","u","o","t","a"," ","e","x","c","e","e","d","e","d"," ","f","o","r"," ","q","u","o","t","a"," ","m","e","t","r","i","c">>)

\* the model options a call sends
optionsOf(call) ==
    IF call.fn = "processAttendanceCommand" THEN attendanceOptions(call.students)
    ELSE generatorOptions(call.fn)

\* what a call hands to its caller once fetch settled with net
outcomeOf(call, n) ==
    IF call.fn = "processAttendanceCommand" THEN processAttendanceCommand(call.students, n)
    ELSE generate(call.fn, n)

NewCall(input) ==
    [fn |-> input.fn, students |-> input.students, pc |-> "idle", handler |-> "none",
     req |-> NoReq, answer |-> NoAnswer, net |-> NoNet, outcome |-> Pending, dispatches |-> 0]

InitConcurrent ==
    /\ calls \in [1..NumCalls -> {NewCall(input) : input \in ConcurrentInputs}]
    /\ apiKey \in BOOLEAN
    /\ students = <<>>
    /\ fn = "none"
    /\ pc = "concurrent"
    /\ ServerIdle
    /\ net = NoNet
    /\ error = Undefined
    /\ outcome = Pending
    /\ dispatches = 0
    /\ proxyReturn = NoReturn

Others == <<clientVars, serverVars, net>>

\* call c reaches its await of fetch; its request starts a handler of its own
DispatchC(c) ==
    /\ calls[c].pc = "idle"
    /\ calls' = [calls EXCEPT ![c].pc = "awaiting", ![c].handler = "received",
                              ![c].req = [method |-> "POST", body |-> optionsOf(calls[c])],
                              ![c].dispatches = @ + 1]
    /\ UNCHANGED Others

\* the handler of call c finds no API_KEY: 500
HandlerMissingKeyC(c) ==
    /\ calls[c].handler = "received"
    /\ calls[c].net.kind = "none"
    /\ methodAllowed(calls[c].req.method)
    /\ ~apiKey
    /\ calls' = [calls EXCEPT ![c].handler = "responded", ![c].net = respond500(Str(MsgKeyNotSet))]
    /\ UNCHANGED Others

\* the handler of call c awaits generateContent(req.body)
HandlerCallProviderC(c) ==
    /\ calls[c].handler = "received"
    /\ calls[c].net.kind = "none"
    /\ methodAllowed(calls[c].req.method)
    /\ apiKey
    /\ calls' = [calls EXCEPT ![c].handler = "provider"]
    /\ UNCHANGED Others

\* variant: the handler keeps the provider's response in a module-level slot
\* that a handler answering later reads in place of its own
ProviderReturnsSharedC(c) ==
    /\ calls[c].handler = "provider"
    /\ calls[c].net.kind = "none"
    /\ \E response \in ConcurrentResponsesFor(calls[c].req.body) :
          LET earlier == {d \in 1..NumCalls : d # c /\ calls[d].answer.kind = "returned"}
              relayed == IF earlier = {} THEN response
                         ELSE calls[CHOOSE d \in earlier : TRUE].answer.response
          IN  calls' = [calls EXCEPT ![c].handler = "responded",
                                     ![c].answer = [NoAnswer EXCEPT !.kind = "returned", !.response = response],
                                     ![c].net = respond200(relayed)]
    /\ UNCHANGED Others

\* generateContent resolved for call c: its handler answers 200 with that response
ProviderReturnsC(c) ==
    /\ calls[c].handler = "provider"
    /\ calls[c].net.kind = "none"
    /\ \E response \in ConcurrentResponsesFor(calls[c].req.body) :
          calls' = [calls EXCEPT ![c].handler = "responded",
                                 ![c].answer = [NoAnswer EXCEPT !.kind = "returned", !.response = response],
                                 ![c].net = respond200(response)]
    /\ UNCHANGED Others

\* generateContent rejected for call c: its handler answers 500
ProviderThrowsC(c) ==
    /\ calls[c].handler = "provider"
    /\ calls[c].net.kind = "none"
    /\ calls' = [calls EXCEPT ![c].handler = "responded",
                              ![c].answer = [NoAnswer EXCEPT !.kind = "threw", !.error = ConcurrentError],
                              ![c].net = respond500(ConcurrentError)]
    /\ UNCHANGED Others

\* the fetch of call c rejects
FetchRejectsC(c) ==
    /\ calls[c].pc = "awaiting"
    /\ calls[c].net.kind = "none"
    /\ calls' = [calls EXCEPT ![c].net = [NoNet EXCEPT !.kind = "reject", !.rejectMessage = MsgFetchFailed]]
    /\ UNCHANGED Others

\* the continuation of call c once its fetch settled
ResumeC(c) ==
    /\ calls[c].pc = "awaiting"
    /\ calls[c].net.kind # "none"
    /\ calls' = [calls EXCEPT ![c].pc = "done", ![c].outcome = outcomeOf(calls[c], calls[c].net)]
    /\ UNCHANGED Others

NextConcurrent ==
    \/ \E c \in 1..NumCalls : DispatchC(c)
    \/ \E c \in 1..NumCalls : HandlerMissingKeyC(c)
    \/ \E c \in 1..NumCalls : HandlerCallProviderC(c)
    \/ \E c \in 1..NumCalls : ProviderReturnsC(c)
    \/ \E c \in 1..NumCalls : ProviderThrowsC(c)
    \/ \E c \in 1..NumCalls : FetchRejectsC(c)
    \/ \E c \in 1..NumCalls : ResumeC(c)

SpecConcurrent == InitConcurrent /\ [][NextConcurrent]_vars

\* ------------------------------------------------ non-OK answers
\* the details and error members a non-OK JSON body may carry
DetailValues == { Undefined, Str(<<>>), Str(<<"Q","u","o","t","a"," ","e","x","c","e","e","d","e","d"," ","f","o","r"," ","q","u","o","t","a"," ","m","e","t","r","i","c">>),
                  Str(<<"U","p","s","t","r","e","a","m",":"," ","f","a","i","l","e","d"," ","t","o"," ","c","a","l","l"," ","t","h","e"," ","A","I"," ","s","e","r","v","i","c","e">>) }
ErrorValues == { Undefined, Str(<<>>), Str(MsgRouteError), Str(MsgMethodNotAllowed) }

ErrorBodies == [details : DetailValues, error : ErrorValues]

ErrorStatuses == {500, 502}

InitErrorBody ==
    /\ fn \in Generators \cup {"processAttendanceCommand"}
    /\ students = (IF fn = "processAttendanceCommand" THEN ConcurrentRoster ELSE <<>>)
    /\ apiKey \in BOOLEAN
    /\ pc = "idle"
    /\ ServerIdle
    /\ net = NoNet
    /\ error = Undefined
    /\ outcome = Pending
    /\ dispatches = 0
    /\ proxyReturn = NoReturn
    /\ calls = <<>>

\* a non-OK answer with a JSON body reaches response.json() in callApiProxy,
\* whoever wrote the body
NonOkJsonAnswer ==
    /\ UNCHANGED calls
    /\ pc = "awaiting"
    /\ net.kind = "none"
    /\ \E status \in ErrorStatuses, body \in ErrorBodies :
          net' = [NoNet EXCEPT !.kind = "response", !.status = status,
                               !.bodyIsJson = TRUE, !.errorData = body]
    /\ UNCHANGED <<clientVars, serverVars>>

NextErrorBody ==
    \/ Dispatch
    \/ DispatchGenerator
    \/ HandlerMissingKey
    \/ HandlerCallProvider
    \/ ProviderThrows
    \/ NonOkJsonAnswer
    \/ GatewayError
    \/ Resume
    \/ ResumeGenerator

SpecErrorBody == InitErrorBody /\ [][NextErrorBody]_vars

\* ------------------------------------------------ the route on its own
\* a request of any method and body arrives at /api/gemini
InitProxy ==
    /\ students = <<>>
    /\ fn = "none"
    /\ apiKey \in BOOLEAN
    /\ pc = "external"
    /\ handler = "received"
    /\ req \in [method : Methods, body : Bodies]
    /\ keyRead = FALSE
    /\ providerCalls = <<>>
    /\ sent = <<>>
    /\ providerAnswer = NoAnswer
    /\ net = NoNet
    /\ error = Undefined
    /\ outcome = Pending
    /\ dispatches = 0
    /\ proxyReturn = NoReturn
    /\ calls = <<>>

NextProxy ==
    \/ HandlerRejectMethod
    \/ HandlerMissingKey
    \/ HandlerCallProvider
    \/ ProviderReturns
    \/ ProviderThrows

SpecProxy == InitProxy /\ [][NextProxy]_vars

\* ================================================================ properties

\* sub occurs in s, stated position by position
IsSubstringOf(sub, s) ==
    \E p \in 1..(Len(s) + 1) :
        /\ p + Len(sub) - 1 <= Len(s)
        /\ \A j \in 1..Len(sub) : s[p + j - 1] = sub[j]

\* the call has returned or raised
Done == pc = "done"

\* the proxy call succeeded: a 200 carrying the provider's response
ProxyOk == net.kind = "response" /\ net.ok

ProviderArgs == net.response.args
NameItems == ProviderArgs.student_names.items

\* the provider sent a tool call with a status and an array of strings
WellFormed ==
    /\ ProxyOk
    /\ net.response.hasCall
    /\ net.response.hasArgs
    /\ Truthy(ProviderArgs.status)
    /\ ProviderArgs.student_names.kind = "array"
    /\ \A k \in 1..Len(NameItems) : NameItems[k].isString

HasAllEntry == \E k \in 1..Len(NameItems) : toLowerCase(NameItems[k].v) = All

PerNamePath == WellFormed /\ ~HasAllEntry

\* candidate k, lower-cased, is a substring of one of the four renderings of roster entry i
EntryMatches(i, k) ==
    LET c == toLowerCase(NameItems[k].v)
        first == toLowerCase(students[i].firstName)
        last == toLowerCase(students[i].lastName)
    IN  \/ IsSubstringOf(c, first \o <<" ">> \o last)
        \/ IsSubstringOf(c, last \o <<" ">> \o first)
        \/ IsSubstringOf(c, first)
        \/ IsSubstringOf(c, last)

\* the first roster entry candidate k matches, 0 if none
FirstMatch(k) ==
    LET M == {i \in 1..Len(students) : EntryMatches(i, k)} IN
    IF M = {} THEN 0 ELSE CHOOSE i \in M : \A j \in M : i <= j

ResultIds == {outcome.studentIds[n] : n \in 1..Len(outcome.studentIds)}

\* C1: a name list holding "ALL" in any letter-casing, alongside any other names,
\* yields the provider's status and the roster's identifiers, one per roster
\* entry, in roster order.
C1_AllYieldsWholeRoster ==
    (Done /\ WellFormed /\ HasAllEntry) =>
        /\ outcome.kind = "intent"
        /\ outcome.status = ProviderArgs.status.v
        /\ Len(outcome.studentIds) = Len(students)
        /\ \A i \in 1..Len(students) : outcome.studentIds[i] = students[i].id

\* C1 witness: "aLl" next to another name, against a roster of two
C1_Witness ==
    /\ Done /\ WellFormed
    /\ Len(students) = 2
    /\ Len(NameItems) = 2
    /\ NameItems[1].v = <<"C","a","r","l","o","s">>
    /\ NameItems[2].v = <<"a","L","l">>
    /\ outcome.studentIds = <<students[1].id, students[2].id>>

\* C2: a returned intent never holds an identifier twice, even when several
\* candidate names resolve to the same roster entry.
C2_NoDuplicateIds ==
    (Done /\ outcome.kind = "intent") =>
        \A m, n \in 1..Len(outcome.studentIds) :
            outcome.studentIds[m] = outcome.studentIds[n] => m = n

\* C2 witness: two different candidates resolve to the same entry, kept once
C2_Witness ==
    /\ Done /\ PerNamePath
    /\ Len(NameItems) = 2
    /\ NameItems[1].v # NameItems[2].v
    /\ FirstMatch(1) # 0
    /\ FirstMatch(1) = FirstMatch(2)
    /\ Len(outcome.studentIds) = 1

\* C3: without an "all" entry every candidate resolves to the first roster
\* entry it matches; the result holds exactly those entries' identifiers, so an
\* entry that only matches after another one is never selected.
C3_FirstMatchWins ==
    (Done /\ PerNamePath) =>
        /\ outcome.kind = "intent"
        /\ ResultIds = {students[FirstMatch(k)].id : k \in {j \in 1..Len(NameItems) : FirstMatch(j) # 0}}

\* C3 witness: "Ana" selects Mariana Cruz, listed before Ana Gomez
C3_Witness ==
    /\ Done /\ PerNamePath
    /\ Len(students) = 2
    /\ students[1].firstName = <<"M","a","r","i","a","n","a">>
    /\ students[2].firstName = <<"A","n","a">>
    /\ NameItems = <<JsString(<<"A","n","a">>)>>
    /\ outcome.studentIds = <<students[1].id>>

\* C4: a candidate matching no roster entry contributes nothing and raises
\* nothing: the call returns an intent whose identifiers all come from matching
\* candidates, and an empty list when no candidate matches.
C4_UnmatchedDropped ==
    (Done /\ PerNamePath) =>
        /\ outcome.kind = "intent"
        /\ Len(outcome.studentIds) <= Cardinality({k \in 1..Len(NameItems) : FirstMatch(k) # 0})
        /\ \A k \in 1..Len(NameItems) :
               FirstMatch(k) # 0 => students[FirstMatch(k)].id \in ResultIds
        /\ (\A k \in 1..Len(NameItems) : FirstMatch(k) = 0) => outcome.studentIds = <<>>

\* C4 witness: "Carlos" matches nobody in a non-empty roster, the intent is empty
C4_Witness ==
    /\ Done /\ PerNamePath
    /\ Len(students) > 0
    /\ NameItems = <<JsString(<<"C","a","r","l","o","s">>)>>
    /\ outcome = Intent(ProviderArgs.status.v, <<>>)

\* C5: a successful proxy call whose response carries no tool invocation ends
\* in the sentinel, not in an error.
C5_NoCallYieldsNull ==
    (Done /\ ProxyOk /\ ~net.response.hasCall) => outcome = Null

\* C5 witness: the call is done on a 200 without tool invocation
C5_Witness == Done /\ ProxyOk /\ ~net.response.hasCall /\ outcome.kind = "null"

\* C6: arguments in which status or student_names is missing end in the
\* sentinel, with no identifier resolved and nothing raised.
C6_MissingFieldYieldsNull ==
    (/\ Done /\ ProxyOk /\ net.response.hasCall /\ net.response.hasArgs
     /\ (~ProviderArgs.status.has \/ ProviderArgs.student_names.kind = "missing")) =>
        outcome = Null

\* C6 witness: status is there, student_names is not
C6_Witness ==
    /\ Done /\ ProxyOk /\ net.response.hasCall /\ net.response.hasArgs
    /\ Truthy(ProviderArgs.status)
    /\ ProviderArgs.student_names.kind = "missing"
    /\ outcome.kind = "null"

\* C7: whenever the proxy call succeeds the call ends by returning an intent or
\* the sentinel, never by raising, whatever the provider sent.
C7_NeverRaisesOnProviderOutput ==
    (Done /\ ProxyOk) => outcome.kind \in {"intent", "null"}

\* C8: a failed proxy call (fetch rejected, or a non-OK status) ends in a raised
\* error whose message is the classifier's output for the failure; no intent
\* and no sentinel is returned.
C8_ProxyFailureRaisesClassified ==
    (Done /\ ~ProxyOk) =>
        /\ error.has
        /\ outcome = Throw(handleGeminiError(error))
        /\ outcome.kind \notin {"intent", "null"}

\* C8 witness: the route answered 500 for a quota failure, the quota message is raised
C8_Witness ==
    /\ Done /\ net.kind = "response" /\ net.status = 500
    /\ outcome.kind = "throw"
    /\ outcome.message = MsgQuota

LowerRaw == toLowerCase(error.v)
SaysKey == IsSubstringOf(PatKeyNotValid, LowerRaw) \/ IsSubstringOf(PatKeyInvalid, LowerRaw)
SaysQuota == IsSubstringOf(PatQuota, LowerRaw)
SaysFailedToCall == IsSubstringOf(PatFailedToCall, LowerRaw)

\* C9: the three category rules apply in a fixed order on the lower-cased
\* message: credential first, then quota, then communication, whatever the
\* letter case of the message.
C9_RulesInOrder ==
    (Done /\ error.has) =>
        /\ SaysKey => outcome.message = MsgInvalidKey
        /\ (~SaysKey /\ SaysQuota) => outcome.message = MsgQuota
        /\ (~SaysKey /\ ~SaysQuota /\ SaysFailedToCall) => outcome.message = MsgCommunication

\* C9 witness: an upper-case credential marker after a quota and a communication
\* marker still yields the credential message
C9_Witness ==
    /\ Done
    /\ error = Str(<<"Q","u","o","t","a">> \o <<"F","a","i","l","e","d"," ","t","o"," ","c","a","l","l"," ","t","h","e"," ","A","I"," ","s","e","r","v","i","c","e">> \o <<"A","P","I","_","K","E","Y","_","I","N","V","A","L","I","D">>)
    /\ outcome.message = MsgInvalidKey

\* C10: a message matching no category rule yields the generic message with the
\* original text embedded as it was; no message yields the fixed failure
\* message; every input ends in one of the five outcomes.
C10_Fallback ==
    Done =>
        /\ outcome.kind = "throw"
        /\ (error.has /\ ~SaysKey /\ ~SaysQuota /\ ~SaysFailedToCall) =>
               outcome.message = PrefixGeneric \o error.v
        /\ ~error.has => outcome.message = MsgDefault
        /\ \/ outcome.message \in {MsgInvalidKey, MsgQuota, MsgCommunication, MsgDefault}
           \/ error.has /\ outcome.message = PrefixGeneric \o error.v

\* C10 witness: a mixed-case message outside every category is embedded unchanged
C10_Witness ==
    /\ Done
    /\ error = Str(<<"O","o","p","s"," ">> \o <<"a","p","i"," ","k","e","y"," ","i","n","v","a","l","i","d">>)
    /\ outcome.message = <<"A","I"," ","E","r","r","o","r",":"," ","O","o","p","s"," ","a","p","i"," ","k","e","y"," ","i","n","v","a","l","i","d">>

\* C10 witness of the other branch: no message at all
C10_WitnessNoMessage == Done /\ ~error.has /\ outcome.message = MsgDefault

\* C11: a request whose method is not POST is answered 405 and nothing else:
\* the credential is not read, the provider is not called, no other response
\* is sent.
C11_NonPostGets405 ==
    (req.method \in Methods \ {"POST"}) =>
        /\ ~keyRead
        /\ providerCalls = <<>>
        /\ providerAnswer.kind = "none"
        /\ handler \in {"received", "responded"}
        /\ handler = "received" => sent = <<>>
        /\ handler = "responded" => (Len(sent) = 1 /\ sent[1].status = 405 /\ net.status = 405)

\* C11 witness: a GET is answered 405 although the credential is absent
C11_Witness ==
    /\ req.method = "GET"
    /\ ~apiKey
    /\ handler = "responded"
    /\ sent = <<respond405>>

\* C12: for a POST, an absent credential is answered 500 {error, details}
\* without any provider call, and a failed provider call is answered 500
\* {error, details} with details the failure's message.
C12_FailuresGet500 ==
    /\ (req.method = "POST" /\ ~apiKey /\ handler = "responded") =>
           /\ providerCalls = <<>>
           /\ Len(sent) = 1
           /\ sent[1].status = 500
           /\ ~sent[1].ok
           /\ Truthy(sent[1].errorData.error)
           /\ sent[1].errorData.details = Str(MsgKeyNotSet)
    /\ (req.method = "POST" /\ ~apiKey) => providerCalls = <<>>
    /\ (providerAnswer.kind = "threw") =>
           /\ Len(sent) = 1
           /\ sent[1].status = 500
           /\ ~sent[1].ok
           /\ Truthy(sent[1].errorData.error)
           /\ sent[1].errorData.details = providerAnswer.error

\* C12 witness: the provider failed on quota and the 500 carries that message
C12_Witness ==
    /\ req.method = "POST"
    /\ providerAnswer.kind = "threw"
    /\ providerAnswer.error = Str(<<"Q","u","o","t","a"," ","e","x","c","e","e","d","e","d"," ","f","o","r"," ","q","u","o","t","a"," ","m","e","t","r","i","c">>)
    /\ sent[1].errorData.details.v = <<"Q","u","o","t","a"," ","e","x","c","e","e","d","e","d"," ","f","o","r"," ","q","u","o","t","a"," ","m","e","t","r","i","c">>

\* C12 witness of the other branch: no credential, 500, provider untouched
C12_WitnessNoKey ==
    /\ req.method = "POST" /\ ~apiKey /\ handler = "responded"
    /\ sent[1].status = 500
    /\ providerCalls = <<>>

C14_DispatchedOnce ==
    /\ dispatches <= 1
    /\ Len(providerCalls) <= 1
    /\ pc \in {"awaiting", "done"} => dispatches = 1

\* C14 witness: a call ended in an error after its single dispatch failed
C14_Witness ==
    /\ Done
    /\ fn = "processAttendanceCommand"
    /\ net.kind = "reject"
    /\ outcome.kind = "throw"
    /\ dispatches = 1

\* C14 witness for a generator
C14_WitnessGenerator ==
    /\ Done /\ fn \in Generators /\ ~ProxyOk /\ outcome.kind = "throw" /\ dispatches = 1

\* C15: the status of a returned intent is the provider's status as sent,
\* inside or outside present, absent, late, on the "ALL" path and on the
\* per-name path alike.
C15_StatusVerbatim ==
    /\ (Done /\ outcome.kind = "intent") => (WellFormed /\ outcome.status = ProviderArgs.status.v)
    /\ (Done /\ WellFormed) => (outcome.kind = "intent" /\ outcome.status = ProviderArgs.status.v)

\* C15 witness: "excused" comes back on the per-name path
C15_Witness ==
    /\ Done /\ PerNamePath
    /\ Len(NameItems) > 0
    /\ ProviderArgs.status.v = <<"e","x","c","u","s","e","d">>
    /\ outcome.kind = "intent"
    /\ outcome.status = <<"e","x","c","u","s","e","d">>

\* C15 witness on the "ALL" path
C15_WitnessAll ==
    /\ Done /\ WellFormed /\ HasAllEntry
    /\ ProviderArgs.status.v = <<"e","x","c","u","s","e","d">>
    /\ outcome.status = <<"e","x","c","u","s","e","d">>

\* the value member key of an object has, as a set (empty if there is none)
MemberValues(json, key) ==
    {json.members[n].value : n \in {m \in 1..Len(json.members) : json.members[m].key = key}}

NonEmptyMember(json, key) ==
    /\ MemberValues(json, key) # {}
    /\ \A v \in MemberValues(json, key) : v.t # "null" /\ ~(v.t = "string" /\ v.s = <<>>)

\* C17: getInspirationalQuote returns only results whose quote and author are
\* there and non-empty; a result without them makes the call raise, through
\* the classifier.
C17_QuoteValidated ==
    (Done /\ fn = "getInspirationalQuote") =>
        /\ outcome.kind \in {"value", "throw"}
        /\ outcome.kind = "value" =>
               /\ outcome.value.defined
               /\ NonEmptyMember(outcome.value.json, <<"q","u","o","t","e">>)
               /\ NonEmptyMember(outcome.value.json, <<"a","u","t","h","o","r">>)
        /\ outcome.kind = "throw" => outcome.message = handleGeminiError(error)

\* C17 witness: an empty quote ends in the classified invalid-structure error
C17_Witness ==
    /\ Done /\ fn = "getInspirationalQuote" /\ ProxyOk
    /\ net.response.text = Str(<<"{","\"","q","u","o","t","e","\"",":","\"","\"",",","\"","a","u","t","h","o","r","\"",":","\"","A","\"","}">>)
    /\ outcome.kind = "throw"
    /\ outcome.message = <<"A","I"," ","E","r","r","o","r",":"," ","A","I"," ","r","e","t","u","r","n","e","d"," ","a","n"," ","i","n","v","a","l","i","d"," ","q","u","o","t","e"," ","s","t","r","u","c","t","u","r","e",".">>

\* C17 witness: a complete quote is returned
C17_WitnessValue ==
    /\ Done /\ fn = "getInspirationalQuote" /\ outcome.kind = "value"

\* the parsed value lacks a field the generator's schema requires
LacksRequired(json) ==
    \/ json.t # "object"
    \/ \E key \in requiredFields(fn) : MemberValues(json, key) = {}

\* the provider's text is not JSON, or its value lacks a required field
MalformedOutput ==
    /\ ProxyOk
    /\ net.response.text.has
    /\ LET p == JSONparse(trim(net.response.text.v)) IN ~p.ok \/ LacksRequired(p.value)

\* C18: a generator given a text that is not valid JSON, or whose value lacks
\* the required result fields, raises the generic classified message and
\* returns nothing.
C18_MalformedOutputRaises ==
    (Done /\ fn \in Generators /\ requiredFields(fn) # {} /\ MalformedOutput) =>
        /\ outcome.kind = "throw"
        /\ error.has
        /\ outcome.message = PrefixGeneric \o error.v

\* first position in the name list of a candidate resolving to identifier id
FirstCandidateFor(id) ==
    LET K == {k \in 1..Len(NameItems) : FirstMatch(k) # 0 /\ students[FirstMatch(k)].id = id}
    IN  CHOOSE k \in K : \A j \in K : k <= j

\* C19: on the per-name path every identifier returned is a roster entry's,
\* and the identifiers stand in the order in which their first matching
\* candidates come in the name list, not in roster order.
C19_CandidateOrder ==
    (Done /\ PerNamePath) =>
        /\ \A n \in 1..Len(outcome.studentIds) :
               /\ \E i \in 1..Len(students) : students[i].id = outcome.studentIds[n]
               /\ \E k \in 1..Len(NameItems) :
                      FirstMatch(k) # 0 /\ students[FirstMatch(k)].id = outcome.studentIds[n]
        /\ \A m, n \in 1..Len(outcome.studentIds) :
               m < n => FirstCandidateFor(outcome.studentIds[m]) < FirstCandidateFor(outcome.studentIds[n])

\* C19 witness: the second roster entry is named first and comes first
C19_Witness ==
    /\ Done /\ PerNamePath
    /\ Len(students) = 2
    /\ NameItems = <<JsString(<<"a"," ","g">>), JsString(<<"A","n","a">>)>>
    /\ outcome.studentIds = <<students[2].id, students[1].id>>

\* C20: on the per-name path with a non-empty roster the empty candidate
\* resolves to the first roster entry; a name list of just "" yields exactly
\* that entry's identifier.
C20_EmptyNameMatchesFirst ==
    (Done /\ PerNamePath /\ Len(students) > 0) =>
        /\ (\E k \in 1..Len(NameItems) : NameItems[k].v = <<>>) => students[1].id \in ResultIds
        /\ (NameItems = <<JsString(<<>>)>>) => outcome.studentIds = <<students[1].id>>

\* C20 witness: [""] against a roster of two yields the first entry alone
C20_Witness ==
    /\ Done /\ PerNamePath
    /\ Len(students) = 2
    /\ NameItems = <<JsString(<<>>)>>
    /\ outcome.studentIds = <<students[1].id>>

\* what call c ends in when it runs alone on the same arguments, with the same
\* fate of its fetch and the same provider answer
SoloOutcome(call) ==
    LET n == IF call.net.kind = "reject" THEN call.net
             ELSE IF call.answer.kind = "returned" THEN respond200(call.answer.response)
             ELSE IF call.answer.kind = "threw" THEN respond500(call.answer.error)
             ELSE respond500(Str(MsgKeyNotSet))
    IN  IF call.fn = "processAttendanceCommand"
        THEN processAttendanceCommand(call.students, n)
        ELSE generate(call.fn, n)

\* C16: calls running side by side share no mutable state: however their
\* dispatches and answers interleave, each call ends as it would alone on the
\* same arguments and the same provider answer, and two calls with the same
\* arguments and answers end alike.
C16_CallsIndependent ==
    /\ \A c \in 1..Len(calls) :
           calls[c].pc = "done" => calls[c].outcome = SoloOutcome(calls[c])
    /\ \A c, d \in 1..Len(calls) :
           (/\ calls[c].pc = "done" /\ calls[d].pc = "done"
            /\ calls[c].fn = calls[d].fn /\ calls[c].students = calls[d].students
            /\ calls[c].answer = calls[d].answer
            /\ calls[c].net.kind = calls[d].net.kind) => calls[c].outcome = calls[d].outcome

\* C16 witness: an attendance call and a generator both ended, one answered
\* while the other was still waiting, each on its own answer
C16_Witness ==
    /\ Len(calls) >= 2
    /\ calls[1].fn = "processAttendanceCommand"
    /\ calls[2].fn = "getInspirationalQuote"
    /\ calls[1].pc = "done" /\ calls[2].pc = "done"
    /\ calls[1].outcome.kind = "intent"
    /\ calls[2].outcome.kind = "value"

\* C16 witness: two attendance calls on different answers end differently
C16_WitnessSameFunction ==
    /\ Len(calls) >= 2
    /\ calls[1].fn = "processAttendanceCommand"
    /\ calls[2].fn = "processAttendanceCommand"
    /\ calls[1].pc = "done" /\ calls[2].pc = "done"
    /\ calls[1].answer.kind = "returned" /\ calls[2].answer.kind = "returned"
    /\ calls[1].answer # calls[2].answer
    /\ calls[1].outcome.kind = "intent"
    /\ calls[1].outcome # calls[2].outcome

\* a non-OK answer reached callApiProxy
NonOk == net.kind = "response" /\ ~net.ok
BodyDetails == net.errorData.details
BodyError == net.errorData.error
BodyHasNeither == ~Truthy(BodyDetails) /\ ~Truthy(BodyError)

\* details if non-empty, else error if non-empty, else the fixed text
CarriedText ==
    IF Truthy(BodyDetails) THEN BodyDetails.v
    ELSE IF Truthy(BodyError) THEN BodyError.v
    ELSE MsgProxyFallback

\* the route answered 500 for the missing API_KEY, and nothing else answered
MissingCredentialAnswer ==
    /\ ~apiKey
    /\ Len(sent) = 1
    /\ net = sent[1]

C21_WitnessCredential ==
    /\ Done /\ MissingCredentialAnswer
    /\ outcome = Throw(PrefixGeneric \o MsgKeyNotSet)

\* C21 witness: empty details, the body's error is carried
C21_WitnessErrorMember ==
    /\ Done /\ NonOk /\ net.bodyIsJson
    /\ ~Truthy(BodyDetails)
    /\ BodyError = Str(MsgRouteError)
    /\ outcome = Throw(PrefixGeneric \o MsgRouteError)

====
